---- MODULE Spec2Model ----
(***************************************************************************)
(* FilterEngine (src-wasm/src/lib.rs): an optional Aho-Corasick automaton,  *)
(* a case-sensitivity flag fixed at construction, and a growable shared     *)
(* byte buffer the host writes into before asking for a match.              *)
(*                                                                          *)
(* Strings (Rust String / &str) are sequences of Unicode scalar values;     *)
(* byte strings (&[u8]) are sequences of 0..255.  as_bytes is the UTF-8     *)
(* encoding, from_utf8_lossy the lossy decoding, so the two are distinct    *)
(* conversions and not the identity.                                        *)
(***************************************************************************)
EXTENDS Integers, Sequences, FiniteSets, TLC

\* The engine's fields, what the last call was given and returned (ret), and
\* a history variable: the keyword set of the last update that succeeded
\* (accepted), kept in the normal form the contract speaks of, and whether
\* the host has filled the active region since the last reserve_buffer
\* (written).
VARIABLES ac, case_sensitive, shared_buffer, ret, accepted, written, upd

vars == <<ac, case_sensitive, shared_buffer, ret, accepted, written, upd>>

(***************************************************************************)
(* Bounds of the model.                                                     *)
(***************************************************************************)
\* Scaled-down stand-in for the 1024 * 1024 bytes reserved by new().
InitialCapacity == 1
\* Longest keyword list total (characters over all keywords of one list).
MaxKwChars == 2
\* Longest text handed to check_match.
MaxTextLen == 2

\* Largest size the host asks reserve_buffer for: one growth past the
\* initial capacity.
MaxSize == InitialCapacity + 1

Max(a, b) == IF a >= b THEN a ELSE b
Min(a, b) == IF a <= b THEN a ELSE b

SeqsUpTo(S, n) == UNION {[1..k -> S] : k \in 0..n}

RECURSIVE TotalLen(_)
TotalLen(l) == IF l = <<>> THEN 0 ELSE Len(Head(l)) + TotalLen(Tail(l))

(***************************************************************************)
(* Strings and bytes.                                                       *)
(***************************************************************************)
\* char::REPLACEMENT_CHARACTER, what from_utf8_lossy puts for invalid bytes.
REPLACEMENT_CHARACTER == 65533

\* char::encode_utf8: the UTF-8 bytes of one scalar value.
encode_utf8(c) ==
    IF c < 128 THEN <<c>>
    ELSE IF c < 2048 THEN <<192 + (c \div 64), 128 + (c % 64)>>
    ELSE IF c < 65536
         THEN <<224 + (c \div 4096), 128 + ((c \div 64) % 64), 128 + (c % 64)>>
         ELSE <<240 + (c \div 262144), 128 + ((c \div 4096) % 64),
                128 + ((c \div 64) % 64), 128 + (c % 64)>>

\* str::as_bytes: the bytes of a string (its UTF-8 encoding).
RECURSIVE as_bytes(_)
as_bytes(s) == IF s = <<>> THEN <<>> ELSE encode_utf8(Head(s)) \o as_bytes(Tail(s))

\* Number of bytes the sequence starting with lead byte b claims (0: b is
\* no lead byte).
utf8_char_width(b) ==
    IF b < 128 THEN 1
    ELSE IF b >= 194 /\ b <= 223 THEN 2
    ELSE IF b >= 224 /\ b <= 239 THEN 3
    ELSE IF b >= 240 /\ b <= 244 THEN 4
    ELSE 0

IsContinuation(b) == b >= 128 /\ b <= 191

\* The second byte's legal range depends on the lead byte (no overlong
\* forms, no surrogates, nothing above U+10FFFF).
SecondByteOk(b0, b1) ==
    CASE b0 = 224 -> b1 >= 160 /\ b1 <= 191
      [] b0 = 237 -> b1 >= 128 /\ b1 <= 159
      [] b0 = 240 -> b1 >= 144 /\ b1 <= 191
      [] b0 = 244 -> b1 >= 128 /\ b1 <= 143
      [] OTHER -> IsContinuation(b1)

\* One step of the lossy decoder on a non-empty byte string: the scalar
\* value decoded and the bytes consumed, or (valid = FALSE) the length of the
\* maximal invalid prefix that one replacement character stands for.
DecodeStep(b) ==
    LET get(i) == IF i <= Len(b) THEN b[i] ELSE 0
        w == utf8_char_width(b[1])
    IN  IF w = 1 THEN [valid |-> TRUE, n |-> 1, c |-> b[1]]
        ELSE IF w = 0 THEN [valid |-> FALSE, n |-> 1, c |-> REPLACEMENT_CHARACTER]
        ELSE IF ~SecondByteOk(b[1], get(2))
             THEN [valid |-> FALSE, n |-> 1, c |-> REPLACEMENT_CHARACTER]
        ELSE IF w = 2
             THEN [valid |-> TRUE, n |-> 2, c |-> (b[1] - 192) * 64 + (b[2] - 128)]
        ELSE IF ~IsContinuation(get(3))
             THEN [valid |-> FALSE, n |-> 2, c |-> REPLACEMENT_CHARACTER]
        ELSE IF w = 3
             THEN [valid |-> TRUE, n |-> 3,
                   c |-> (b[1] - 224) * 4096 + (b[2] - 128) * 64 + (b[3] - 128)]
        ELSE IF ~IsContinuation(get(4))
             THEN [valid |-> FALSE, n |-> 3, c |-> REPLACEMENT_CHARACTER]
        ELSE [valid |-> TRUE, n |-> 4,
              c |-> (b[1] - 240) * 262144 + (b[2] - 128) * 4096
                    + (b[3] - 128) * 64 + (b[4] - 128)]

\* String::from_utf8_lossy: every maximal invalid byte run becomes U+FFFD.
RECURSIVE from_utf8_lossy(_)
from_utf8_lossy(b) ==
    IF b = <<>> THEN <<>>
    ELSE LET d == DecodeStep(b)
         IN  <<d.c>> \o from_utf8_lossy(SubSeq(b, d.n + 1, Len(b)))

\* core::str::from_utf8(b).is_ok()
RECURSIVE is_utf8(_)
is_utf8(b) ==
    IF b = <<>> THEN TRUE
    ELSE LET d == DecodeStep(b)
         IN  d.valid /\ is_utf8(SubSeq(b, d.n + 1, Len(b)))

(***************************************************************************)
(* str::trim and str::to_lowercase.  The character tables are those of the  *)
(* Basic Latin and Greek blocks, the blocks the inputs below are drawn      *)
(* from; every other scalar value has no case and is not white space.       *)
(***************************************************************************)
\* char::is_whitespace (the White_Space property).
is_whitespace(c) ==
    \/ c >= 9 /\ c <= 13
    \/ c \in {32, 133, 160, 5760, 8232, 8233, 8239, 8287, 12288}
    \/ c >= 8192 /\ c <= 8202

\* str::trim_start / str::trim_end / str::trim.
RECURSIVE trim_start(_)
trim_start(s) ==
    IF s # <<>> /\ is_whitespace(Head(s)) THEN trim_start(Tail(s)) ELSE s

RECURSIVE trim_end(_)
trim_end(s) ==
    IF s # <<>> /\ is_whitespace(s[Len(s)])
    THEN trim_end(SubSeq(s, 1, Len(s) - 1)) ELSE s

trim(s) == trim_end(trim_start(s))

\* The Cased property: upper- and lower-case letters.
Cased(c) ==
    \/ c >= 65 /\ c <= 90
    \/ c >= 97 /\ c <= 122
    \/ c >= 913 /\ c <= 937 /\ c # 930
    \/ c >= 945 /\ c <= 969

\* The Case_Ignorable property (apostrophe, full stop, colon, circumflex,
\* grave accent, soft hyphen).
Case_Ignorable(c) == c \in {39, 46, 58, 94, 96, 173}

\* core::unicode::conversions::to_lower: the unconditional lower-case
\* mapping of one scalar value.
to_lower(c) ==
    IF c >= 65 /\ c <= 90 THEN <<c + 32>>
    ELSE IF c >= 913 /\ c <= 937 /\ c # 930 THEN <<c + 32>>
    ELSE <<c>>

\* case_ignorable_then_cased: skip the case-ignorable characters, then say
\* whether the next one is cased.
RECURSIVE case_ignorable_then_cased(_)
case_ignorable_then_cased(s) ==
    IF s = <<>> THEN FALSE
    ELSE IF Case_Ignorable(Head(s)) THEN case_ignorable_then_cased(Tail(s))
    ELSE Cased(Head(s))

Reverse(s) == [i \in 1..Len(s) |-> s[Len(s) + 1 - i]]

\* map_uppercase_sigma: capital sigma (931) becomes final sigma (962) at
\* the end of a word and small sigma (963) anywhere else.
map_uppercase_sigma(s, i) ==
    LET is_word_final ==
            /\ case_ignorable_then_cased(Reverse(SubSeq(s, 1, i - 1)))
            /\ ~case_ignorable_then_cased(SubSeq(s, i + 1, Len(s)))
    IN  IF is_word_final THEN <<962>> ELSE <<963>>

RECURSIVE LowerFrom(_, _)
LowerFrom(s, i) ==
    IF i > Len(s) THEN <<>>
    ELSE (IF s[i] = 931 THEN map_uppercase_sigma(s, i) ELSE to_lower(s[i]))
         \o LowerFrom(s, i + 1)

\* str::to_lowercase
to_lowercase(s) == LowerFrom(s, 1)

(***************************************************************************)
(* The automaton.  AhoCorasick is a library type: it is modelled by the     *)
(* list of byte patterns it was built from and by what find returns for     *)
(* MatchKind::LeftmostFirst.                                                *)
(***************************************************************************)
\* Pattern p occurs in haystack h starting at position i.
MatchesAt(p, h, i) ==
    /\ i + Len(p) - 1 <= Len(h)
    /\ \A j \in 1..Len(p) : h[i + j - 1] = p[j]

\* AhoCorasick::find under MatchKind::LeftmostFirst: of the matches that
\* start leftmost, the one of the pattern given first.
find(patterns, h) ==
    LET starts == {i \in 1..Len(h) + 1 :
                      \E k \in 1..Len(patterns) : MatchesAt(patterns[k], h, i)}
    IN  IF starts = {} THEN [is_some |-> FALSE, pattern |-> 0, start |-> 0, end |-> 0]
        ELSE LET i == CHOOSE x \in starts : \A y \in starts : x <= y
                 k == CHOOSE x \in 1..Len(patterns) :
                         /\ MatchesAt(patterns[x], h, i)
                         /\ \A y \in 1..Len(patterns) :
                                MatchesAt(patterns[y], h, i) => x <= y
             IN  [is_some |-> TRUE, pattern |-> k, start |-> i,
                  end |-> i + Len(patterns[k]) - 1]

\* Option<AhoCorasick>: None, or Some automaton over its patterns.
None == [is_some |-> FALSE, patterns |-> <<>>]
Some(patterns) == [is_some |-> TRUE, patterns |-> patterns]

(***************************************************************************)
(* update_keywords                                                          *)
(***************************************************************************)
\* A JsValue handed to update_keywords: an array of strings, or anything
\* else (which serde_wasm_bindgen::from_value refuses).
JsArray(strings) == [is_string_array |-> TRUE, strings |-> strings]
JsOther == [is_string_array |-> FALSE, strings |-> <<>>]

\* processed_keywords without the filter that drops the empty keywords.
RECURSIVE processed_keywords_unfiltered(_, _)
processed_keywords_unfiltered(raw_keywords, cs) ==
    IF raw_keywords = <<>> THEN <<>>
    ELSE LET s == trim(Head(raw_keywords))
         IN  <<IF cs THEN s ELSE to_lowercase(s)>>
                \o processed_keywords_unfiltered(Tail(raw_keywords), cs)

\* processed_keywords without the trim.
RECURSIVE processed_keywords_untrimmed(_, _)
processed_keywords_untrimmed(raw_keywords, cs) ==
    IF raw_keywords = <<>> THEN <<>>
    ELSE LET s == Head(raw_keywords)
             rest == processed_keywords_untrimmed(Tail(raw_keywords), cs)
         IN  IF s = <<>> THEN rest
             ELSE <<IF cs THEN s ELSE to_lowercase(s)>> \o rest

\* The iterator chain of update_keywords: trim every keyword, drop the empty
\* ones, lower-case the rest unless the engine is case sensitive.
RECURSIVE processed_keywords(_, _)
processed_keywords(raw_keywords, cs) ==
    IF raw_keywords = <<>> THEN <<>>
    ELSE LET s == trim(Head(raw_keywords))
             rest == processed_keywords(Tail(raw_keywords), cs)
         IN  IF s = <<>> THEN rest
             ELSE <<IF cs THEN s ELSE to_lowercase(s)>> \o rest

\* A build that compiles the first pattern only.
build_first_only(patterns) ==
    IF Len(patterns) > MaxKwChars + 1
    THEN [is_ok |-> FALSE, ac |-> None]
    ELSE [is_ok |-> TRUE, ac |-> Some(<<as_bytes(patterns[1])>>)]

\* AhoCorasickBuilder::build refuses a pattern list beyond the library's
\* identifier space; PatternLimit scales that limit down to the model.
PatternLimit == MaxKwChars + 1

build(patterns) ==
    IF Len(patterns) > PatternLimit
    THEN [is_ok |-> FALSE, ac |-> None]
    ELSE [is_ok |-> TRUE,
          ac |-> Some([k \in 1..Len(patterns) |-> as_bytes(patterns[k])])]

\* update_keywords that returns early on an empty list without clearing the
\* held automaton.
update_keywords_result_keeping(self_ac, cs, keywords) ==
    IF ~keywords.is_string_array THEN [ac |-> self_ac, res |-> "Err"]
    ELSE LET processed == processed_keywords(keywords.strings, cs)
         IN  IF processed = <<>> THEN [ac |-> self_ac, res |-> "Ok"]
             ELSE LET b == build(processed)
                  IN  IF ~b.is_ok THEN [ac |-> self_ac, res |-> "Err"]
                      ELSE [ac |-> b.ac, res |-> "Ok"]

\* update_keywords that installs the new automaton only into an empty slot
\* and empties an occupied one.
update_keywords_result_toggling(self_ac, cs, keywords) ==
    IF ~keywords.is_string_array THEN [ac |-> self_ac, res |-> "Err"]
    ELSE LET processed == processed_keywords(keywords.strings, cs)
         IN  IF processed = <<>> THEN [ac |-> None, res |-> "Ok"]
             ELSE LET b == build(processed)
                  IN  IF ~b.is_ok THEN [ac |-> self_ac, res |-> "Err"]
                      ELSE [ac |-> IF self_ac.is_some THEN None ELSE b.ac,
                            res |-> "Ok"]

\* update_keywords that adds the new keywords to the ones already held
\* instead of replacing them.
update_keywords_result_extending(self_ac, cs, keywords) ==
    IF ~keywords.is_string_array THEN [ac |-> self_ac, res |-> "Err"]
    ELSE LET processed == processed_keywords(keywords.strings, cs)
         IN  IF processed = <<>> THEN [ac |-> None, res |-> "Ok"]
             ELSE LET b == build(processed)
                  IN  IF ~b.is_ok THEN [ac |-> self_ac, res |-> "Err"]
                      ELSE [ac |-> IF self_ac.is_some
                                   THEN Some(self_ac.patterns \o b.ac.patterns)
                                   ELSE b.ac,
                            res |-> "Ok"]

\* update_keywords that drops the held automaton before it knows whether the
\* new one can be built.
update_keywords_result_clearing(self_ac, cs, keywords) ==
    IF ~keywords.is_string_array THEN [ac |-> None, res |-> "Err"]
    ELSE LET processed == processed_keywords(keywords.strings, cs)
         IN  IF processed = <<>> THEN [ac |-> None, res |-> "Ok"]
             ELSE LET b == build(processed)
                  IN  IF ~b.is_ok THEN [ac |-> None, res |-> "Err"]
                      ELSE [ac |-> b.ac, res |-> "Ok"]

\* update_keywords on an engine holding self_ac: the automaton held
\* afterwards and the Result returned.
update_keywords_result(self_ac, cs, keywords) ==
    IF ~keywords.is_string_array THEN [ac |-> self_ac, res |-> "Err"]
    ELSE LET processed == processed_keywords(keywords.strings, cs)
         IN  IF processed = <<>> THEN [ac |-> None, res |-> "Ok"]
             ELSE LET b == build(processed)
                  IN  IF ~b.is_ok THEN [ac |-> self_ac, res |-> "Err"]
                      ELSE [ac |-> b.ac, res |-> "Ok"]

(***************************************************************************)
(* check_match and check_match_ptr                                          *)
(***************************************************************************)
Bool(b) == IF b THEN "true" ELSE "false"

\* check_match(text)
check_match_result(self_ac, cs, text) ==
    IF ~self_ac.is_some THEN "true"
    ELSE IF cs THEN Bool(find(self_ac.patterns, as_bytes(text)).is_some)
    ELSE Bool(find(self_ac.patterns, as_bytes(to_lowercase(text))).is_some)

\* A slice over the whole allocation instead of its first len bytes.
slice_to_capacity(buf, len) ==
    IF len > buf.len THEN [panics |-> TRUE, data |-> <<>>]
    ELSE [panics |-> FALSE, data |-> buf.mem]

\* An unchecked slice (slice::from_raw_parts on the base pointer): no panic,
\* whatever the allocation holds.
slice_to_unchecked(buf, len) ==
    [panics |-> FALSE, data |-> SubSeq(buf.mem, 1, Min(len, buf.cap))]

\* &self.shared_buffer[..len]: the slice, or a panic when len is beyond the
\* vector's length.
slice_to(buf, len) ==
    IF len > buf.len THEN [panics |-> TRUE, data |-> <<>>]
    ELSE [panics |-> FALSE, data |-> SubSeq(buf.mem, 1, len)]

\* check_match_ptr that scans the raw bytes in both modes (no lower-casing).
check_match_ptr_result_raw(self_ac, cs, buf, len) ==
    IF ~self_ac.is_some THEN [res |-> "true", read |-> 0]
    ELSE LET sl == slice_to(buf, len)
         IN  IF sl.panics THEN [res |-> "panic", read |-> 0]
             ELSE [res |-> Bool(find(self_ac.patterns, sl.data).is_some),
                   read |-> Len(sl.data)]

\* check_match_ptr(len): the value returned (or "panic") and the number of
\* buffer bytes the call looked at.
check_match_ptr_result(self_ac, cs, buf, len) ==
    IF ~self_ac.is_some THEN [res |-> "true", read |-> 0]
    ELSE LET sl == slice_to(buf, len)
         IN  IF sl.panics THEN [res |-> "panic", read |-> 0]
             ELSE IF cs
                  THEN [res |-> Bool(find(self_ac.patterns, sl.data).is_some),
                        read |-> Len(sl.data)]
                  ELSE LET target == to_lowercase(from_utf8_lossy(sl.data))
                       IN  [res |-> Bool(find(self_ac.patterns,
                                              as_bytes(target)).is_some),
                            read |-> Len(sl.data)]

(***************************************************************************)
(* The shared buffer: a Vec<u8> seen as capacity, length, the bytes of its  *)
(* allocation (initialised or not) and the allocation's address.            *)
(***************************************************************************)
Addresses == {"p0", "p1"}

\* size - self.shared_buffer.len() on usize: an underflow panics in a debug
\* build and wraps to a request beyond isize::MAX in a release build, which
\* Vec::reserve refuses with a "capacity overflow" panic.
checked_sub(a, b) == [underflow |-> a < b, value |-> IF a < b THEN 0 ELSE a - b]

\* Capacities computed from the additional bytes alone, the bytes already in
\* the vector forgotten.
GrowChoices_without_len(buf, additional) ==
    {Max(buf.cap, additional)}

\* The capacities Vec::reserve may leave: at least len + additional (exactly
\* that, or the amortised doubling).
GrowChoices(buf, additional) ==
    {buf.len + additional, Max(2 * buf.cap, buf.len + additional)}

\* A reserve that takes its argument for the total capacity wanted instead of
\* the bytes wanted beyond the length.
reserve_total(buf, additional, newcap, fresh, ptr) ==
    IF buf.cap >= additional THEN buf
    ELSE [cap |-> newcap,
          len |-> buf.len,
          mem |-> [i \in 1..newcap |-> IF i <= buf.cap THEN buf.mem[i] ELSE fresh[i]],
          ptr |-> ptr]

\* Vec::reserve(additional): nothing when the spare capacity suffices;
\* otherwise a reallocation to newcap bytes, which keeps the old bytes,
\* leaves the new ones uninitialised (fresh) and may move the allocation.
reserve(buf, additional, newcap, fresh, ptr) ==
    IF buf.cap - buf.len >= additional THEN buf
    ELSE [cap |-> newcap,
          len |-> buf.len,
          mem |-> [i \in 1..newcap |-> IF i <= buf.cap THEN buf.mem[i] ELSE fresh[i]],
          ptr |-> ptr]

\* A set_len that also gives the spare capacity back (truncate and
\* shrink_to_fit), the allocation moving when it shrinks.
set_len_shrinking(buf, size) ==
    [cap |-> size, len |-> size, mem |-> SubSeq(buf.mem, 1, size),
     ptr |-> IF size < buf.cap THEN CHOOSE p \in Addresses : p # buf.ptr
             ELSE buf.ptr]

\* A set_len that only ever lengthens the vector.
set_len_growing(buf, size) == [buf EXCEPT !.len = Max(buf.len, size)]

\* unsafe set_len(size)
set_len(buf, size) == [buf EXCEPT !.len = size]

(***************************************************************************)
(* The state machine.                                                       *)
(***************************************************************************)
\* The normal form of a keyword list: every keyword trimmed, the empty ones
\* dropped, the rest lower-cased unless the engine is case sensitive; as a set.
Normalised(strings, cs) ==
    {IF cs THEN trim(strings[i]) ELSE to_lowercase(trim(strings[i])) :
        i \in {j \in DOMAIN strings : trim(strings[j]) # <<>>}}

\* No update_keywords call is under way.
Idle == [pc |-> "idle", js |-> JsOther, processed |-> <<>>, built |-> None]

NoArg == [op |-> "new", js |-> JsOther, text |-> <<>>, len |-> 0,
          res |-> "unit", read |-> 0]

\* FilterEngine::new(case_sensitive): no automaton, an empty vector over
\* InitialCapacity uninitialised bytes (any of Garbage).
new(Garbage) ==
    /\ ac = None
    /\ case_sensitive \in BOOLEAN
    /\ \E m \in [1..InitialCapacity -> Garbage] :
          shared_buffer = [cap |-> InitialCapacity, len |-> 0, mem |-> m, ptr |-> "p0"]
    /\ ret = NoArg
    /\ accepted = [any |-> FALSE, keywords |-> {}]
    /\ written = FALSE
    /\ upd = Idle

get_buffer_ptr ==
    /\ ret' = [NoArg EXCEPT !.op = "get_buffer_ptr", !.res = shared_buffer.ptr]
    /\ UNCHANGED <<ac, case_sensitive, shared_buffer, accepted, written, upd>>

reserve_buffer(size, Garbage) ==
    /\ IF shared_buffer.cap < size
       THEN LET additional == checked_sub(size, shared_buffer.len)
            IN  IF additional.underflow
                THEN /\ ret' = [NoArg EXCEPT !.op = "reserve_buffer", !.len = size,
                                             !.res = "panic"]
                     /\ UNCHANGED shared_buffer
                ELSE \E newcap \in GrowChoices(shared_buffer, additional.value),
                        p \in Addresses :
                        \E fresh \in [shared_buffer.cap + 1..newcap -> Garbage] :
                            /\ shared_buffer' =
                                  set_len(reserve(shared_buffer, additional.value,
                                                  newcap, fresh, p), size)
                            /\ ret' = [NoArg EXCEPT !.op = "reserve_buffer",
                                                    !.len = size]
       ELSE /\ shared_buffer' = set_len(shared_buffer, size)
            /\ ret' = [NoArg EXCEPT !.op = "reserve_buffer", !.len = size]
    /\ written' = FALSE
    /\ UNCHANGED <<ac, case_sensitive, accepted, upd>>

\* The host fills the active region through the pointer it fetched.
host_write(bytes) ==
    /\ Len(bytes) = shared_buffer.len
    /\ shared_buffer' =
          [shared_buffer EXCEPT
              !.mem = [i \in 1..shared_buffer.cap |->
                          IF i <= Len(bytes) THEN bytes[i] ELSE shared_buffer.mem[i]]]
    /\ ret' = [NoArg EXCEPT !.op = "host_write", !.len = Len(bytes)]
    /\ written' = TRUE
    /\ UNCHANGED <<ac, case_sensitive, accepted, upd>>

\* An update_keywords that also empties the scan buffer (Vec::clear).
update_keywords_resetting(keywords) ==
    LET r == update_keywords_result(ac, case_sensitive, keywords)
    IN  /\ ac' = r.ac
        /\ ret' = [NoArg EXCEPT !.op = "update_keywords", !.js = keywords,
                                !.res = r.res]
        /\ accepted' = IF r.res = "Ok"
                       THEN [any |-> TRUE,
                             keywords |-> Normalised(keywords.strings, case_sensitive)]
                       ELSE accepted
        /\ shared_buffer' = [shared_buffer EXCEPT !.len = 0]
        /\ UNCHANGED <<case_sensitive, written, upd>>

update_keywords(keywords) ==
    LET r == update_keywords_result(ac, case_sensitive, keywords)
    IN  /\ ac' = r.ac
        /\ ret' = [NoArg EXCEPT !.op = "update_keywords", !.js = keywords,
                                !.res = r.res]
        /\ accepted' = IF r.res = "Ok"
                       THEN [any |-> TRUE,
                             keywords |-> Normalised(keywords.strings, case_sensitive)]
                       ELSE accepted
        /\ UNCHANGED <<case_sensitive, shared_buffer, written, upd>>

\* A check_match_ptr that lower-cases the scanned bytes where they lie
\* (make_ascii_lowercase on the slice) when the engine is case-insensitive.
check_match_ptr_in_place(len) ==
    LET r == check_match_ptr_result(ac, case_sensitive, shared_buffer, len)
    IN  /\ ret' = [NoArg EXCEPT !.op = "check_match_ptr", !.len = len,
                                !.res = r.res, !.read = r.read]
        /\ shared_buffer' =
              IF case_sensitive \/ r.read = 0 THEN shared_buffer
              ELSE [shared_buffer EXCEPT
                       !.mem = [i \in 1..shared_buffer.cap |->
                                   IF i <= len /\ shared_buffer.mem[i] \in 65..90
                                   THEN shared_buffer.mem[i] + 32
                                   ELSE shared_buffer.mem[i]]]
        /\ UNCHANGED <<ac, case_sensitive, accepted, written, upd>>

check_match_ptr(len) ==
    LET r == check_match_ptr_result(ac, case_sensitive, shared_buffer, len)
    IN  /\ ret' = [NoArg EXCEPT !.op = "check_match_ptr", !.len = len,
                                !.res = r.res, !.read = r.read]
        /\ UNCHANGED <<ac, case_sensitive, shared_buffer, accepted, written, upd>>

check_match(text) ==
    /\ ret' = [NoArg EXCEPT !.op = "check_match", !.text = text,
                            !.res = check_match_result(ac, case_sensitive, text)]
    /\ UNCHANGED <<ac, case_sensitive, shared_buffer, accepted, written, upd>>

\* update_keywords statement by statement, for the calls that look at the
\* engine while an update is under way.  upd holds the position in the
\* method and its locals.
UpdateReturns(res) ==
    /\ ret' = [NoArg EXCEPT !.op = "update_keywords", !.js = upd.js, !.res = res]
    /\ accepted' = IF res = "Ok"
                   THEN [any |-> TRUE,
                         keywords |-> Normalised(upd.js.strings, case_sensitive)]
                   ELSE accepted
    /\ upd' = Idle

\* An update_call that takes the held automaton out of the engine on entry.
update_call_taking(keywords) ==
    /\ upd.pc = "idle"
    /\ upd' = [Idle EXCEPT !.pc = "from_value", !.js = keywords]
    /\ ac' = None
    /\ UNCHANGED <<case_sensitive, shared_buffer, ret, accepted, written>>

\* The call enters the method.
update_call(keywords) ==
    /\ upd.pc = "idle"
    /\ upd' = [Idle EXCEPT !.pc = "from_value", !.js = keywords]
    /\ UNCHANGED <<ac, case_sensitive, shared_buffer, ret, accepted, written>>

\* let raw_keywords: Vec<String> = serde_wasm_bindgen::from_value(keywords)?
update_from_value ==
    /\ upd.pc = "from_value"
    /\ IF upd.js.is_string_array
       THEN /\ upd' = [upd EXCEPT !.pc = "process"]
            /\ UNCHANGED <<ret, accepted>>
       ELSE UpdateReturns("Err")
    /\ UNCHANGED <<ac, case_sensitive, shared_buffer, written>>

\* let processed_keywords = raw_keywords.into_iter()...collect()
update_process ==
    /\ upd.pc = "process"
    /\ upd' = [upd EXCEPT !.pc = "is_empty",
                          !.processed = processed_keywords(upd.js.strings,
                                                           case_sensitive)]
    /\ UNCHANGED <<ac, case_sensitive, shared_buffer, ret, accepted, written>>

\* if processed_keywords.is_empty() { self.ac = None; return Ok(()) }
update_is_empty ==
    /\ upd.pc = "is_empty"
    /\ IF upd.processed = <<>>
       THEN /\ ac' = None
            /\ UpdateReturns("Ok")
       ELSE /\ upd' = [upd EXCEPT !.pc = "build"]
            /\ UNCHANGED <<ac, ret, accepted>>
    /\ UNCHANGED <<case_sensitive, shared_buffer, written>>

\* let ac = AhoCorasickBuilder::new()...build(&processed_keywords).map_err(..)?
update_build ==
    /\ upd.pc = "build"
    /\ LET b == build(upd.processed)
       IN  IF b.is_ok
           THEN /\ upd' = [upd EXCEPT !.pc = "publish", !.built = b.ac]
                /\ UNCHANGED <<ret, accepted>>
           ELSE UpdateReturns("Err")
    /\ UNCHANGED <<ac, case_sensitive, shared_buffer, written>>

\* self.ac = Some(ac); Ok(())
update_publish ==
    /\ upd.pc = "publish"
    /\ ac' = upd.built
    /\ UpdateReturns("Ok")
    /\ UNCHANGED <<case_sensitive, shared_buffer, written>>

(***************************************************************************)
(* Inputs and specifications.                                               *)
(***************************************************************************)
\* Keyword lists of at most n characters in all, over the characters chars.
KeywordLists(chars, n) ==
    {l \in SeqsUpTo(SeqsUpTo(chars, n), n) : TotalLen(l) <= n}

\* A list of one more keyword than the builder accepts.
TooManyKeywords == [i \in 1..PatternLimit + 1 |-> <<97>>]

\* Spec: the whole engine, the buffered path in front.  The host writes the
\* bytes A, a and 0xFF (not UTF-8), uses keywords of one character, and
\* hands check_match the string form of what it wrote.
BufBytes == {65, 97, 255}
BufKwChars == {97, REPLACEMENT_CHARACTER}
BufKeywords == {JsOther, JsArray(<<>>), JsArray(TooManyKeywords)}
                  \cup {JsArray(<<k>>) : k \in SeqsUpTo(BufKwChars, MaxKwChars - 1)}
BufTexts == {from_utf8_lossy(SubSeq(shared_buffer.mem, 1, n)) :
                n \in 0..shared_buffer.len}

Init == new(BufBytes)

Next ==
    \/ get_buffer_ptr
    \/ \E size \in 0..MaxSize : reserve_buffer(size, BufBytes)
    \/ \E bytes \in SeqsUpTo(BufBytes, MaxSize) : host_write(bytes)
    \/ \E keywords \in BufKeywords : update_keywords(keywords)
    \/ \E len \in 0..MaxSize + 1 : check_match_ptr(len)
    \/ \E text \in BufTexts : check_match(text)

Spec == Init /\ [][Next]_vars

\* SpecKw: the keyword path in front.  Keywords and texts over space, A and
\* a; the buffer stays as new() left it.
KwChars == {32, 65, 97}
KwInputs == {JsOther, JsArray(TooManyKeywords)}
               \cup {JsArray(l) : l \in KeywordLists(KwChars, MaxKwChars)}
KwTexts == SeqsUpTo(KwChars, MaxTextLen)

InitKw == new({0})

NextKw ==
    \/ \E keywords \in KwInputs : update_keywords(keywords)
    \/ \E text \in KwTexts : check_match(text)
    \/ \E len \in 0..1 : check_match_ptr(len)

SpecKw == InitKw /\ [][NextKw]_vars

\* SpecCase: letter case in front.  Keywords and texts over A, a and the
\* three sigmas (capital 931, final 962, small 963).
CaseChars == {65, 97, 931, 962, 963}
CaseInputs == {JsArray(<<>>)}
                 \cup {JsArray(<<k>>) : k \in SeqsUpTo(CaseChars, MaxKwChars)}
CaseTexts == SeqsUpTo(CaseChars, MaxTextLen)

InitCase == new({0})

NextCase ==
    \/ \E keywords \in CaseInputs : update_keywords(keywords)
    \/ \E text \in CaseTexts : check_match(text)
    \/ \E len \in 0..1 : check_match_ptr(len)

SpecCase == InitCase /\ [][NextCase]_vars

\* SpecOrd: lists of up to two keywords over a and b (a keyword and its
\* prefix, a keyword twice, either order), texts over the same letters.
OrdChars == {97, 98}
OrdInputs == {JsArray(l) : l \in SeqsUpTo(SeqsUpTo(OrdChars, MaxKwChars), 2)}
OrdTexts == SeqsUpTo(OrdChars, MaxTextLen)

InitOrd == new({0})

NextOrd ==
    \/ \E keywords \in OrdInputs : update_keywords(keywords)
    \/ \E text \in OrdTexts : check_match(text)
    \/ \E len \in 0..1 : check_match_ptr(len)

SpecOrd == InitOrd /\ [][NextOrd]_vars

\* SpecSteps: update_keywords taken statement by statement, the match calls
\* free to look at the engine between any two statements.
StepInputs == BufKeywords
StepTexts == SeqsUpTo(BufKwChars, MaxTextLen)

InitSteps == new({0})

NextSteps ==
    \/ \E keywords \in StepInputs : update_call(keywords)
    \/ update_from_value
    \/ update_process
    \/ update_is_empty
    \/ update_build
    \/ update_publish
    \/ \E text \in StepTexts : check_match(text)
    \/ \E len \in 0..1 : check_match_ptr(len)

SpecSteps == InitSteps /\ [][NextSteps]_vars

(***************************************************************************)
(* The claims.                                                              *)
(***************************************************************************)
\* k occurs in t as a contiguous run of characters.
IsSubstring(k, t) ==
    \E i \in 0..Len(t) - Len(k) : SubSeq(t, i + 1, i + Len(k)) = k

\* What the contract promises for text T under the normalised keyword set N.
Expected(N, cs, T) ==
    \/ N = {}
    \/ \E k \in N : IsSubstring(k, IF cs THEN T ELSE to_lowercase(T))

\* C1: after update_keywords accepted the list K, check_match(T) is true
\* exactly when the normalised K (trimmed, empties dropped, lower-cased when
\* case-insensitive) is empty or T (lower-cased when case-insensitive)
\* contains one of its keywords as a contiguous substring: for every text
\* right after the update, and for the text of every later check_match call.
C1_MatchIffContains ==
    /\ (ret.op = "update_keywords" /\ ret.res = "Ok") =>
          \A T \in KwTexts :
              check_match_result(ac, case_sensitive, T)
                 = Bool(Expected(Normalised(ret.js.strings, case_sensitive),
                                 case_sensitive, T))
    /\ (ret.op = "check_match" /\ accepted.any) =>
          ret.res = Bool(Expected(accepted.keywords, case_sensitive, ret.text))

\* A case-insensitive check_match call that found a keyword in a text with a
\* capital letter.
C1_Witness ==
    /\ ret.op = "check_match" /\ ret.res = "true"
    /\ accepted.any /\ accepted.keywords # {}
    /\ ~case_sensitive
    /\ \E i \in DOMAIN ret.text : ret.text[i] = 65

\* The first L bytes of the buffer.
Prefix(L) == SubSeq(shared_buffer.mem, 1, L)

\* check_match_ptr over the first L bytes agrees with check_match on their
\* string form (the lossy decoding, the only string an arbitrary byte
\* sequence has).
BufferedEqualsDirect(L) ==
    check_match_ptr_result(ac, case_sensitive, shared_buffer, L).res
       = check_match_result(ac, case_sensitive, from_utf8_lossy(Prefix(L)))

\* C2 as stated: for any byte sequence B of length L in the active region,
\* check_match_ptr(L) returns what check_match returns on the string
\* representation of B.
C2_AnyBytes ==
    written => \A L \in 0..shared_buffer.len : BufferedEqualsDirect(L)

\* C2 as amended: the same, for byte sequences that are valid UTF-8, and for
\* every byte sequence when the engine is case-insensitive.
C2_BufferedEqualsDirect ==
    /\ written =>
          \A L \in 0..shared_buffer.len :
              (is_utf8(Prefix(L)) \/ ~case_sensitive) => BufferedEqualsDirect(L)
    /\ (/\ written
        /\ ret.op = "check_match_ptr" /\ ret.len <= shared_buffer.len
        /\ (is_utf8(Prefix(ret.len)) \/ ~case_sensitive)) =>
          ret.res = check_match_result(ac, case_sensitive,
                                       from_utf8_lossy(Prefix(ret.len)))

\* A case-insensitive buffered scan that found a keyword in bytes holding a
\* capital letter.
C2_Witness ==
    /\ written
    /\ ret.op = "check_match_ptr" /\ ret.res = "true" /\ ac.is_some
    /\ ~case_sensitive /\ ret.len = shared_buffer.len /\ ret.len > 0
    /\ is_utf8(Prefix(ret.len))
    /\ \E i \in 1..ret.len : shared_buffer.mem[i] = 65

\* C3: an update_keywords call that fails (undecodable input, or the builder
\* refusing the list) leaves the held automaton, the flag and the buffer as
\* they were, so every match call returns what it returned before.
C3_FailedUpdateKeepsAutomaton ==
    [][(ret'.op = "update_keywords" /\ ret'.res = "Err") =>
          /\ ac' = ac
          /\ UNCHANGED <<case_sensitive, shared_buffer, written>>
          /\ \A T \in KwTexts :
                check_match_result(ac', case_sensitive', T)
                   = check_match_result(ac, case_sensitive, T)]_vars

\* The builder refused a list while an automaton was held, and it is still
\* held.
C3_Witness ==
    /\ ret.op = "update_keywords" /\ ret.res = "Err"
    /\ ret.js.is_string_array
    /\ ac.is_some

\* Every text the buffered specification's alphabet gives.
AllBufTexts == SeqsUpTo({65, 97, REPLACEMENT_CHARACTER}, MaxTextLen)

\* C4: the engine holds no automaton exactly when no update_keywords has
\* succeeded yet or the last one that succeeded had a list that is empty
\* after trimming and dropping the empty entries; it then answers true to
\* every check_match and to every check_match_ptr within the active length.
\* Otherwise it holds the automaton of the last successful update.
C4_NoFilterIffNoKeywords ==
    /\ ~ac.is_some <=> (~accepted.any \/ accepted.keywords = {})
    /\ ~ac.is_some =>
          /\ ac = None
          /\ \A T \in AllBufTexts : check_match_result(ac, case_sensitive, T) = "true"
          /\ \A L \in 0..shared_buffer.len :
                check_match_ptr_result(ac, case_sensitive, shared_buffer, L).res = "true"
          /\ ret.op = "check_match" => ret.res = "true"
          /\ (ret.op = "check_match_ptr" /\ ret.len <= shared_buffer.len) =>
                ret.res = "true"
    /\ ac.is_some =>
          {ac.patterns[i] : i \in DOMAIN ac.patterns}
             = {as_bytes(k) : k \in accepted.keywords}

\* An update with a list of one empty keyword succeeded and left the engine
\* without an automaton.
C4_Witness ==
    /\ ret.op = "update_keywords" /\ ret.res = "Ok"
    /\ ret.js.strings # <<>>
    /\ ~ac.is_some /\ accepted.any

\* C5: after reserve_buffer(N) and a host write of N bytes, what
\* check_match_ptr(N) returns is decided by those N bytes (and the held
\* automaton) alone: it is the same whatever the rest of the allocation
\* holds, and the call looks at no more than N bytes.
C5_ScanReadsOnlyPayload ==
    (written /\ ret.op = "check_match_ptr" /\ ret.len = shared_buffer.len) =>
        /\ ret.read <= ret.len
        /\ \A m \in [1..shared_buffer.cap -> BufBytes] :
              (\A i \in 1..ret.len : m[i] = shared_buffer.mem[i]) =>
                 check_match_ptr_result(ac, case_sensitive,
                                        [shared_buffer EXCEPT !.mem = m],
                                        ret.len).res = ret.res

\* A scan of N freshly written bytes answered false although a byte past
\* them, left in the allocation, matches the keyword.
C5_Witness ==
    /\ written /\ ret.op = "check_match_ptr" /\ ret.len = shared_buffer.len
    /\ ret.len > 0 /\ ret.len < shared_buffer.cap
    /\ case_sensitive /\ ac.is_some /\ ret.res = "false"
    /\ find(ac.patterns, shared_buffer.mem).is_some

\* C6: check_match_ptr(len) never looks at bytes past the active length; with
\* len beyond it the call is refused (it panics) or answers what the call
\* with len clamped to the active length answers, having read no byte past
\* the active length.
C6_NoScanPastActiveLength ==
    ret.op = "check_match_ptr" =>
        /\ ret.read <= shared_buffer.len
        /\ ret.len > shared_buffer.len =>
              \/ ret.res = "panic" /\ ret.read = 0
              \/ /\ ret.read = 0
                 /\ ret.res = check_match_ptr_result(ac, case_sensitive, shared_buffer,
                                                     shared_buffer.len).res

\* A scan length within the capacity but past the active length was refused.
C6_Witness ==
    /\ ret.op = "check_match_ptr" /\ ret.res = "panic"
    /\ ret.len > shared_buffer.len /\ ret.len <= shared_buffer.cap

\* C7: check_match_ptr(len) with len past the active length is reported to
\* the caller as an error instead of a boolean, with or without an automaton.
C7_OutOfRangeIsAnError ==
    (ret.op = "check_match_ptr" /\ ret.len > shared_buffer.len) =>
        ret.res = "panic"

\* C8: check_match("") and check_match_ptr(0) return false whenever an
\* automaton is held and true whenever none is, in every buffer state.
C8_ZeroLength ==
    /\ check_match_result(ac, case_sensitive, <<>>) = Bool(~ac.is_some)
    /\ check_match_ptr_result(ac, case_sensitive, shared_buffer, 0).res
          = Bool(~ac.is_some)
    /\ (ret.op = "check_match" /\ ret.text = <<>>) => ret.res = Bool(~ac.is_some)
    /\ (ret.op = "check_match_ptr" /\ ret.len = 0) => ret.res = Bool(~ac.is_some)

\* check_match_ptr(0) answered false on an engine whose buffer is as new()
\* left it.
C8_Witness ==
    /\ ret.op = "check_match_ptr" /\ ret.len = 0 /\ ret.res = "false"
    /\ ac.is_some
    /\ shared_buffer.len = 0 /\ shared_buffer.cap = InitialCapacity /\ ~written

\* C9: a second update_keywords call with the list of the call just before
\* it returns the same Result and leaves every check_match and
\* check_match_ptr answer as the first call left it.
C9_UpdateIdempotent ==
    [][(/\ ret.op = "update_keywords" /\ ret'.op = "update_keywords"
        /\ ret'.js = ret.js) =>
          /\ ret'.res = ret.res
          /\ \A T \in KwTexts :
                check_match_result(ac', case_sensitive', T)
                   = check_match_result(ac, case_sensitive, T)
          /\ \A L \in 0..MaxSize + 1 :
                check_match_ptr_result(ac', case_sensitive', shared_buffer', L)
                   = check_match_ptr_result(ac, case_sensitive, shared_buffer, L)]_vars

\* An update with two keywords succeeded.
C9_Witness ==
    /\ ret.op = "update_keywords" /\ ret.res = "Ok"
    /\ ac.is_some /\ Len(ac.patterns) = 2

\* The upper-case letter of a character (char::to_uppercase on the letters the
\* alphabets hold): the Latin and Greek small letters, final sigma included.
UpperOf(c) ==
    IF c \in 97..122 THEN c - 32
    ELSE IF c = 962 THEN 931
    ELSE IF c \in 945..969 THEN c - 32
    ELSE c

IsAsciiLetter(c) == c \in 65..90 \/ c \in 97..122

\* s and t are the same string up to the case of its letters.
SameUpToCase(s, t) ==
    /\ Len(s) = Len(t)
    /\ \A i \in 1..Len(s) : UpperOf(s[i]) = UpperOf(t[i])

\* s and t are the same string up to the case of its ASCII letters.
SameUpToAsciiCase(s, t) ==
    /\ SameUpToCase(s, t)
    /\ \A i \in 1..Len(s) : s[i] # t[i] => IsAsciiLetter(s[i]) /\ IsAsciiLetter(t[i])

\* A buffer whose active region holds exactly the bytes of a text.
BufferOf(text) ==
    [cap |-> Len(as_bytes(text)), len |-> Len(as_bytes(text)),
     mem |-> as_bytes(text), ptr |-> "p0"]

PtrOn(a, cs, text) ==
    check_match_ptr_result(a, cs, BufferOf(text), Len(as_bytes(text))).res

CaseKeywords == SeqsUpTo(CaseChars, MaxKwChars)

\* The engine's case-sensitive half of the case mode: a text matches only
\* where it holds a keyword as given, letter for letter.
CaseSensitiveExact ==
    (case_sensitive /\ ret.op = "update_keywords" /\ ret.res = "Ok") =>
        \A T \in CaseTexts :
            /\ check_match_result(ac, case_sensitive, T)
                  = Bool(Expected({trim(k) : k \in {ret.js.strings[i] : i \in DOMAIN ret.js.strings}}
                                     \ {<<>>}, TRUE, T))
            /\ PtrOn(ac, case_sensitive, T) = check_match_result(ac, case_sensitive, T)

\* Whether two strings are related is decided by Same; the case-insensitive
\* half of the case mode for that relation: related texts get the same
\* answer, and related keywords give automata with the same answers.
CaseInsensitiveUnder(Same(_, _)) ==
    ~case_sensitive =>
        /\ \A T1, T2 \in CaseTexts :
              Same(T1, T2) =>
                 /\ check_match_result(ac, case_sensitive, T1)
                       = check_match_result(ac, case_sensitive, T2)
                 /\ PtrOn(ac, case_sensitive, T1) = PtrOn(ac, case_sensitive, T2)
        /\ (ret.op = "update_keywords" /\ ret.res = "Ok" /\ Len(ret.js.strings) = 1) =>
              \A K2 \in CaseKeywords :
                 Same(ret.js.strings[1], K2) =>
                    LET other == update_keywords_result(ac, case_sensitive,
                                                        JsArray(<<K2>>)).ac
                    IN  \A T \in CaseTexts :
                           /\ check_match_result(other, case_sensitive, T)
                                 = check_match_result(ac, case_sensitive, T)
                           /\ PtrOn(other, case_sensitive, T)
                                 = PtrOn(ac, case_sensitive, T)
        /\ (ret.op = "check_match" /\ ac.is_some) =>
              \A T2 \in CaseTexts :
                 Same(ret.text, T2) =>
                    ret.res = check_match_result(ac, case_sensitive, T2)

\* C10 as the specification states it: with case_sensitive = false the
\* answers of check_match and check_match_ptr do not change when a letter of
\* a keyword or of the text changes its case; with case_sensitive = true a
\* keyword matches only an occurrence of identical case.
C10_AnyLetterCase ==
    /\ CaseInsensitiveUnder(SameUpToCase)
    /\ CaseSensitiveExact

\* What the engine does keep: the answers of a case-insensitive engine do not
\* change when an ASCII letter of a keyword or of the text changes its case.
AsciiLetterCaseHolds ==
    /\ CaseInsensitiveUnder(SameUpToAsciiCase)
    /\ CaseSensitiveExact


\* The automaton an engine that never held one holds after update_keywords(js).
FreshWith(cs, js) == update_keywords_result(None, cs, js).ac

\* C11: after a successful update_keywords(K2) every match answer is the one
\* of an engine that was given K2 alone, whatever was installed before; a
\* check_match that follows answers true when K2 normalises to nothing and
\* otherwise exactly when the text holds a keyword of K2. From every state the
\* updates {"a"}, {}, {"aa"} give the answers true, true, false on the text
\* "a".
C11_WholesaleReplacement ==
    /\ LET a1 == update_keywords_result(ac, case_sensitive, JsArray(<<<<97>>>>)).ac
           a2 == update_keywords_result(a1, case_sensitive, JsArray(<<>>)).ac
           a3 == update_keywords_result(a2, case_sensitive, JsArray(<<<<97, 97>>>>)).ac
       IN  /\ check_match_result(a1, case_sensitive, <<97>>) = "true"
           /\ check_match_result(a2, case_sensitive, <<97>>) = "true"
           /\ check_match_result(a3, case_sensitive, <<97>>) = "false"
    /\ (ret.op = "update_keywords" /\ ret.res = "Ok") =>
          \A T \in KwTexts :
             /\ check_match_result(ac, case_sensitive, T)
                   = check_match_result(FreshWith(case_sensitive, ret.js),
                                        case_sensitive, T)
             /\ PtrOn(ac, case_sensitive, T)
                   = PtrOn(FreshWith(case_sensitive, ret.js), case_sensitive, T)
    /\ (ret.op = "check_match" /\ accepted.any) =>
          ret.res = IF accepted.keywords = {} THEN "true"
                    ELSE Bool(\E k \in accepted.keywords :
                                 IsSubstring(k, IF case_sensitive THEN ret.text
                                                ELSE to_lowercase(ret.text)))

\* A text that holds the letter a was refused by an engine whose only
\* keyword, after the last update, is A.
C11_Witness ==
    /\ ret.op = "check_match" /\ ret.res = "false"
    /\ case_sensitive /\ accepted.keywords = {<<65>>}
    /\ ret.text = <<97>>


\* C12: the active length of the buffer never exceeds its capacity (and the
\* allocation holds exactly capacity bytes).
C12_LenWithinCapacity ==
    /\ shared_buffer.len <= shared_buffer.cap
    /\ Len(shared_buffer.mem) = shared_buffer.cap

\* The buffer is full after a reserve_buffer that had to grow it.
C12_Witness ==
    /\ ret.op = "reserve_buffer"
    /\ shared_buffer.len = shared_buffer.cap
    /\ shared_buffer.cap > InitialCapacity

\* C13: no step reduces the capacity of the buffer.
C13_CapacityNeverShrinks ==
    [][shared_buffer'.cap >= shared_buffer.cap]_vars

\* A reserve_buffer of fewer bytes than a grown buffer holds left the capacity
\* above the size asked for.
C13_Witness ==
    /\ ret.op = "reserve_buffer"
    /\ shared_buffer.cap > InitialCapacity
    /\ ret.len < InitialCapacity
    /\ shared_buffer.len = ret.len

\* C14: after reserve_buffer(n) has returned, the capacity is at least n and
\* the active length is n, whatever the length was before the call.
C14_ReservePostcondition ==
    [][ret'.op = "reserve_buffer" =>
          /\ ret'.res # "panic"
          /\ shared_buffer'.cap >= ret'.len
          /\ shared_buffer'.len = ret'.len]_vars

\* reserve_buffer(n) with n below the capacity of a grown buffer left the
\* active length at n.
C14_Witness ==
    /\ ret.op = "reserve_buffer" /\ ret.res # "panic"
    /\ shared_buffer.cap > InitialCapacity
    /\ ret.len < shared_buffer.cap
    /\ shared_buffer.len = ret.len


\* C20: whenever reserve_buffer(size) takes its growth branch (capacity < size)
\* size is above the active length, so size - len does not underflow, and the
\* capacity the reservation leaves is at least size; no reserve_buffer call
\* has panicked.
C20_NoUnderflow ==
    /\ \A size \in 0..MaxSize :
          shared_buffer.cap < size =>
             LET additional == checked_sub(size, shared_buffer.len)
             IN  /\ size > shared_buffer.len
                 /\ ~additional.underflow
                 /\ \A newcap \in GrowChoices(shared_buffer, additional.value),
                       p \in Addresses :
                       reserve(shared_buffer, additional.value, newcap,
                               [i \in shared_buffer.cap + 1..newcap |-> 0], p).cap
                          >= size
    /\ ret.op = "reserve_buffer" =>
          /\ ret.res # "panic"
          /\ shared_buffer.cap >= ret.len

\* A reserve_buffer grew a buffer that already held bytes.
C20_Witness ==
    /\ ret.op = "reserve_buffer" /\ ret.res # "panic"
    /\ ret.len > InitialCapacity
    /\ shared_buffer.len = ret.len
    /\ \E i \in 1..InitialCapacity : shared_buffer.mem[i] = 97

\* C15: get_buffer_ptr returns the base address of the buffer and changes
\* nothing, and the base address changes only in a reserve_buffer call that
\* grows the capacity.
C15_BaseAddressStable ==
    [][/\ ret'.op = "get_buffer_ptr" =>
             /\ ret'.res = shared_buffer'.ptr
             /\ shared_buffer' = shared_buffer
       /\ shared_buffer'.ptr # shared_buffer.ptr =>
             /\ ret'.op = "reserve_buffer"
             /\ shared_buffer.cap < ret'.len
             /\ shared_buffer'.cap > shared_buffer.cap]_vars

\* The host fetched the base address again after a growth had moved the
\* buffer.
C15_Witness ==
    /\ ret.op = "get_buffer_ptr" /\ ret.res = "p1"
    /\ shared_buffer.ptr = "p1"
    /\ shared_buffer.cap > InitialCapacity


\* C17: check_match and check_match_ptr change neither the automaton, nor the
\* case mode, nor the buffer (contents, active length, capacity, address);
\* the same call made again gives the answer it gave.
C17_MatchCallsReadOnly ==
    [][ret'.op \in {"check_match", "check_match_ptr"} =>
          /\ ac' = ac
          /\ case_sensitive' = case_sensitive
          /\ shared_buffer' = shared_buffer
          /\ ret'.op = "check_match" =>
                check_match_result(ac', case_sensitive', ret'.text) = ret'.res
          /\ ret'.op = "check_match_ptr" =>
                check_match_ptr_result(ac', case_sensitive', shared_buffer',
                                       ret'.len).res = ret'.res]_vars

\* A case-insensitive scan of a buffer holding a capital letter matched and
\* left the capital letter in the buffer.
C17_Witness ==
    /\ ret.op = "check_match_ptr" /\ ret.res = "true"
    /\ ~case_sensitive /\ ac.is_some
    /\ ret.len > 0 /\ ret.len <= shared_buffer.len
    /\ \A i \in 1..ret.len : shared_buffer.mem[i] = 65

\* C18: update_keywords, whether it succeeds or fails, leaves the buffer as
\* it was; reserve_buffer leaves the automaton as it was; no step changes the
\* case mode.
C18_PartsIndependent ==
    [][/\ ret'.op = "update_keywords" => shared_buffer' = shared_buffer
       /\ ret'.op = "reserve_buffer" => ac' = ac
       /\ case_sensitive' = case_sensitive]_vars

\* An update failed on an engine whose buffer holds written bytes.
C18_Witness ==
    /\ ret.op = "update_keywords" /\ ret.res = "Err"
    /\ written /\ shared_buffer.len > 0
    /\ ac.is_some


\* Two keyword lists hold the same keywords, in any order and any number of
\* times each.
SameKeywords(l1, l2) ==
    {l1[i] : i \in DOMAIN l1} = {l2[i] : i \in DOMAIN l2}

\* C16: the answers of the match calls are the same for every order of the
\* keyword list and every repetition of its keywords, and the answer is true
\* whenever any keyword of a held automaton occurs in the text, also when one
\* keyword is a prefix of another.
C16_OrderAndDuplicatesIrrelevant ==
    /\ (ret.op = "update_keywords" /\ ret.res = "Ok") =>
          /\ \A js2 \in OrdInputs :
                SameKeywords(ret.js.strings, js2.strings) =>
                   LET other == update_keywords_result(ac, case_sensitive, js2).ac
                   IN  \A T \in OrdTexts :
                          /\ check_match_result(other, case_sensitive, T)
                                = check_match_result(ac, case_sensitive, T)
                          /\ PtrOn(other, case_sensitive, T)
                                = PtrOn(ac, case_sensitive, T)
          /\ \A T \in OrdTexts :
                (\E k \in Normalised(ret.js.strings, case_sensitive) :
                    IsSubstring(k, IF case_sensitive THEN T ELSE to_lowercase(T)))
                   => /\ check_match_result(ac, case_sensitive, T) = "true"
                      /\ PtrOn(ac, case_sensitive, T) = "true"
    /\ (/\ ret.op = "check_match"
        /\ \E k \in accepted.keywords :
              IsSubstring(k, IF case_sensitive THEN ret.text
                             ELSE to_lowercase(ret.text))) =>
          ret.res = "true"

\* The text ab was matched by an automaton built from a and ab, in that
\* order.
C16_Witness ==
    /\ ret.op = "check_match" /\ ret.res = "true" /\ ret.text = <<97, 98>>
    /\ ac.is_some /\ ac.patterns = <<<<97>>, <<97, 98>>>>


\* C19: while an update_keywords call is under way the held automaton stays
\* the one held before the call, so a match call made meanwhile answers from
\* it; the automaton changes in the one step in which the call returns, to
\* what the whole call installs (the new automaton fully built, or none for
\* a list that normalises to nothing), and a failed call changes nothing.
C19_AtomicPublication ==
    [][/\ upd'.pc # "idle" => ac' = ac
       /\ (upd.pc # "idle" /\ upd'.pc = "idle") =>
             LET r == update_keywords_result(ac, case_sensitive, upd.js)
             IN  /\ ac' = r.ac
                 /\ ret'.op = "update_keywords" /\ ret'.res = r.res
                 /\ ~r.ac.is_some => processed_keywords(upd.js.strings,
                                                        case_sensitive) = <<>>
                                        \/ ~ac.is_some
       /\ (ret'.op \in {"check_match", "check_match_ptr"} /\ ret' # ret) =>
             /\ ac' = ac
             /\ ret'.op = "check_match" =>
                   ret'.res = check_match_result(ac, case_sensitive, ret'.text)]_vars

\* A check_match looked at the engine while a new automaton was built and
\* not yet stored, and answered from the automaton held before.
C19_Witness ==
    /\ upd.pc = "publish"
    /\ ret.op = "check_match" /\ ret.res = "false"
    /\ ac.is_some /\ upd.built.is_some /\ upd.built # ac
    /\ check_match_result(upd.built, case_sensitive, ret.text) = "true"

====
